---- MODULE Spec2Model ----
(***************************************************************************)
(* Model of checker.py (ComicUpdateChecker): the per-page update check,    *)
(* the in-memory data mapping and the data file, over consecutive runs of  *)
(* the script (Spec), and one reading of a SoupHasher by the loop of       *)
(* md5sum with a given read size (SpecExtract).                            *)
(*                                                                         *)
(* Python dicts are modelled as functions whose DOMAIN is the set of keys  *)
(* present, so that a missing key, an empty record {} and a missing record *)
(* are all distinct, as they are in the program.                           *)
(***************************************************************************)
EXTENDS Integers, Sequences, FiniteSets, TLC

\* ------------------------------------------------------------------------
\* Bounds of the model
\* ------------------------------------------------------------------------

\* number of consecutive runs of the script that are explored
MaxRuns == 2

\* number of top-level elements of the documents given to the extractor
MaxElems == 2

\* largest read size the extractor is read with
MaxRead == 3

\* ------------------------------------------------------------------------
\* Program constants
\* ------------------------------------------------------------------------

READ_BUFFER_SIZE == 1048576

\* ------------------------------------------------------------------------
\* Python dict helpers
\* ------------------------------------------------------------------------

EmptyDict == [k \in {} |-> TRUE]

Has(d, k) == k \in DOMAIN d

\* variant of SetItem that keeps no other key
SetItemAlone(d, k, v) == [x \in {k} |-> v]

\* d[k] = v
SetItem(d, k, v) == [x \in (DOMAIN d) \cup {k} |-> IF x = k THEN v ELSE d[x]]

\* the dict returned by d.setdefault(k, {})
SetDefault(d, k) == IF Has(d, k) THEN d[k] ELSE EmptyDict

\* d.setdefault(name, {})[key] = v
SetField(d, name, key, v) == SetItem(d, name, SetItem(SetDefault(d, name), key, v))

\* truth value of d.get(k) for a string-valued key
TruthyStr(d, k) == Has(d, k) /\ d[k] # ""

\* truth value of d.get(k) for a bool-valued key
TruthyBool(d, k) == Has(d, k) /\ d[k] = TRUE

\* ------------------------------------------------------------------------
\* HTML documents, extraction and digest
\* ------------------------------------------------------------------------

\* an element of a parsed document: its tag, its text and the elements
\* inside it
Element(tag, t, children) == [tag |-> tag, text |-> t, children |-> children]

Div(t) == Element("div", t, << >>)

DocA == << Div("a") >>
DocB == << Div("b") >>
EmptyDoc == << >>

\* the "criteria" of a page that has one: all div elements
DivCriteria == [name |-> "div"]

\* variant of find_all that takes every element, whatever its tag
RECURSIVE find_all_any_tag(_, _)
find_all_any_tag(soup, criteria) ==
    IF soup = << >> THEN << >>
    ELSE << Head(soup) >>
         \o find_all_any_tag(Head(soup).children, criteria)
         \o find_all_any_tag(Tail(soup), criteria)

\* soup.find_all(criteria.get("name"), criteria.get("attrs")): the matching
\* elements of the whole tree in document order, an element before the
\* elements inside it
RECURSIVE find_all(_, _)
find_all(soup, criteria) ==
    IF soup = << >> THEN << >>
    ELSE (IF Head(soup).tag = criteria.name THEN << Head(soup) >> ELSE << >>)
         \o find_all(Head(soup).children, criteria)
         \o find_all(Tail(soup), criteria)

\* variant of Reverse that leaves the list as it is
NotReversed(s) == s

Reverse(s) == [i \in 1..Len(s) |-> s[Len(s) + 1 - i]]

\* element.prettify().encode('utf-8'), as a sequence of bytes: the element
\* with everything inside it
RECURSIVE prettify(_)
RECURSIVE Serialize(_)
prettify(e) == << "<", e.tag, ">", e.text >> \o Serialize(e.children)
               \o << "<", "/", e.tag, ">" >>

\* bytes of a sequence of elements; of a whole document as sent by the server
Serialize(doc) == IF doc = << >> THEN << >>
                  ELSE prettify(Head(doc)) \o Serialize(Tail(doc))

Min(a, b) == IF a < b THEN a ELSE b

\* SoupHasher.__init__
SoupHasher(soup, criteria) ==
    [kind |-> "soup", results |-> Reverse(find_all(soup, criteria)), buf |-> << >>]

\* a file-like object over the bytes that are still unread
RawStream(bytes) == [kind |-> "raw", results |-> << >>, buf |-> bytes]

\* readable.read(n): the bytes returned and the reader afterwards
read(h, n) ==
    IF h.buf = << >> /\ h.results = << >>
    THEN [ret |-> << >>, h |-> h]
    ELSE LET popped == h.buf = << >>
             buf == IF popped THEN prettify(h.results[Len(h.results)]) ELSE h.buf
             results == IF popped THEN SubSeq(h.results, 1, Len(h.results) - 1)
                        ELSE h.results
             k == Min(n, Len(buf))
         IN  [ret |-> SubSeq(buf, 1, k),
              h |-> [h EXCEPT !.results = results,
                              !.buf = SubSeq(buf, k + 1, Len(buf))]]

\* hashlib.md5 is modelled as collision-free: the digest determines the input
hexdigest(bytes) == << "md5", bytes >>

RECURSIVE md5loop(_, _)
md5loop(h, acc) ==
    LET r == read(h, READ_BUFFER_SIZE)
    IN  IF r.ret = << >> THEN acc ELSE md5loop(r.h, acc \o r.ret)

md5sum(readable) == hexdigest(md5loop(readable, << >>))

\* ------------------------------------------------------------------------
\* Timestamps
\* ------------------------------------------------------------------------

Stamp1 == "Mon, 01 Jan 2024 00:00:00 GMT"
Stamp2 == "Tue, 02 Jan 2024 00:00:00 GMT"
\* a Last-Modified value that does not follow TIMESTAMP_FORMAT
BadStamp == "2024-01-03T00:00:00Z"

\* datetime.datetime.now().strftime(TIMESTAMP_FORMAT) at the time of the run:
\* %Z of a naive datetime is the empty string
Now == "Wed, 03 Jan 2024 00:00:00 "

\* datetime.datetime.strptime(s, TIMESTAMP_FORMAT): the parsed value as
\* print shows it, or a ValueError
strptime(s) ==
    CASE s = Stamp1 -> [raised |-> FALSE, value |-> "2024-01-01 00:00:00"]
      [] s = Stamp2 -> [raised |-> FALSE, value |-> "2024-01-02 00:00:00"]
      [] OTHER      -> [raised |-> TRUE, value |-> "ValueError"]

\* ------------------------------------------------------------------------
\* Configuration
\* ------------------------------------------------------------------------

Names == {"foo", "name"}

upper(name) == CASE name = "foo" -> "FOO" [] name = "name" -> "NAME"

Url(name) == CASE name = "foo" -> "http://example.test/foo"
               [] name = "name" -> "http://example.test/name"

\* one value of comic_config: "override-last-modified" and "criteria" are
\* optional keys; criteria = {} stands for a page without criteria
Configuration(name, override, criteria) ==
    [url |-> Url(name), override |-> override, criteria |-> criteria]

\* comic_config.items(): pairs <<name, configuration>> with distinct names,
\* in the order of the configuration file.  The configurations explored are
\* one page "foo" with every combination of the optional keys, one page
\* "name", and the two pages without optional keys in either order.
ComicConfigs ==
    LET Entry == { << "foo", Configuration("foo", o, c) >> :
                     o \in BOOLEAN, c \in {EmptyDict, DivCriteria} }
        Plain(n) == << n, Configuration(n, FALSE, EmptyDict) >>
        Pairs == { << Plain(n), Plain(m) >> : n \in Names, m \in Names }
    IN  { << e >> : e \in Entry }
        \cup { << Plain(n) >> : n \in Names }
        \cup { c \in Pairs : c[1][1] # c[2][1] }

\* argparse namespace: the three flags the loop reads
Args == [only_show_changes : BOOLEAN, dont_save_changes : BOOLEAN,
         break_on_error : BOOLEAN]

\* ------------------------------------------------------------------------
\* The server and requests.get
\* ------------------------------------------------------------------------

\* what the server does with one request: it does not answer (the transport
\* fails), or it answers with a status, headers and a body.  A 304 has no
\* body and is only given to a request that carries If-Modified-Since.
NoAnswer == [answered |-> FALSE, status_code |-> 0, headers |-> EmptyDict,
             body |-> EmptyDoc]

Answer(status, hdrs, doc) ==
    [answered |-> TRUE, status_code |-> status, headers |-> hdrs, body |-> doc]

LastModified(s) == [h \in {"Last-Modified"} |-> s]

ServerAnswers(headers) ==
    { NoAnswer,
      Answer(404, EmptyDict, EmptyDoc),
      Answer(200, EmptyDict, DocA),
      Answer(200, EmptyDict, DocB),
      Answer(200, LastModified(Stamp1), DocA),
      Answer(200, LastModified(Stamp2), DocB),
      Answer(200, LastModified(BadStamp), DocA) }
    \cup (IF Has(headers, "If-Modified-Since")
          THEN { Answer(304, EmptyDict, EmptyDoc),
                 Answer(304, LastModified(headers["If-Modified-Since"]), EmptyDoc) }
          ELSE {})

\* requests.get(url, headers=headers) without stream=True: an exception when
\* the transport fails; otherwise a Response whose content has been read in
\* full, so that r.text holds the body and r.raw has nothing left to read
requests_get(answer) ==
    IF ~answer.answered
    THEN [error |-> TRUE, r |-> NoAnswer, raw |-> RawStream(<< >>)]
    ELSE [error |-> FALSE, r |-> answer, raw |-> RawStream(<< >>)]

\* Response.ok: raise_for_status() raises only for 400 <= status_code < 600
ok(r) == ~(r.status_code >= 400 /\ r.status_code < 600)

\* ------------------------------------------------------------------------
\* The loop body for one page
\* ------------------------------------------------------------------------

\* variant of RequestHeaders that does not look at the override flag
RequestHeadersNoOverride(data, name, configuration) ==
    LET data_item == SetDefault(data, name)
    IN  IF TruthyStr(data_item, "last_modified")
        THEN [h \in {"If-Modified-Since"} |-> data[name]["last_modified"]]
        ELSE EmptyDict

\* the request headers sent for the page (without User-Agent)
RequestHeaders(data, name, configuration) ==
    LET data_item == SetDefault(data, name)
    IN  IF TruthyStr(data_item, "last_modified") /\ ~configuration.override
        THEN [h \in {"If-Modified-Since"} |-> data[name]["last_modified"]]
        ELSE EmptyDict

\* "if not data_item": the page has no record, or an empty one
FirstRun(data, name) == ~Has(data, name) \/ data[name] = EmptyDict

\* "error is not None or not r.ok"
IsError(got) == got.error \/ ~ok(got.r)

\* the object handed to md5sum
ToHash(configuration, got) ==
    IF configuration.criteria # EmptyDict
    THEN SoupHasher(got.r.body, configuration.criteria)
    ELSE got.raw

\* last_error = data.get("name", {}).get("last_error")
LastErrorLookup(data, name) == TruthyBool(SetDefault(data, "name"), "last_error")

\* variant of MarkError that records the failure under the literal key "name"
MarkErrorLiteralKey(data, name) == SetField(data, "name", "last_error", TRUE)

\* data.setdefault(name, {})["last_error"] = True
MarkError(data, name) == SetField(data, name, "last_error", TRUE)

\* variant of UseHash that does not look at the override flag
UseHashNoOverride(r, configuration) == ~Has(r.headers, "Last-Modified")

\* "last_modified is None or configuration.get('override-last-modified')"
UseHash(r, configuration) ==
    ~Has(r.headers, "Last-Modified") \/ configuration.override

\* variant of HashChanged that reads a key the record never has
HashChangedWrongKey(data_item, digest) ==
    ~Has(data_item, "md5") \/ data_item["md5"] # digest

\* data_item.get("hash") != hexdigest
HashChanged(data_item, digest) ==
    ~Has(data_item, "hash") \/ data_item["hash"] # digest

\* data.setdefault(name, {})["hash"] = hexdigest
StoreHash(data, name, digest) == SetField(data, name, "hash", digest)

\* data.setdefault(name, {})["last_error"] = False
\* data[name]["last_modified"] = last_modified
StoreTimestamp(data, name, last_modified) ==
    SetField(SetField(data, name, "last_error", FALSE),
             name, "last_modified", last_modified)

\* the lines the loop body can print
LineUnmodifiedError(name) == << name, "unmodified (error)" >>
LineFailed(configuration, got) ==
    << "Failed to fetch", configuration.url, IF got.error THEN "args" ELSE "None" >>
LineModifiedHash(name) == << "*", upper(name), "modified (checked via hash)" >>
LineUnmodifiedHash(name) == << name, "unmodified (checked via hash)" >>
LineModified(name, parsed) == << "*", upper(name), "modified", parsed >>

\* One iteration of "for name, configuration in comic_config.items()" with
\* the server's answer given.  s = [data, first_run_or_save]; the result adds
\* the lines printed, the branch taken ("raise": an exception left the loop)
\* and the digest computed on the hash branch.
PageStep(s, name, configuration, flags, answer) ==
    LET data == s.data
        first_run_or_save ==
            IF FirstRun(data, name) THEN TRUE ELSE s.first_run_or_save
        data_item == IF FirstRun(data, name) THEN EmptyDict ELSE data[name]
        got == requests_get(answer)
        r == got.r
        Out(d, lines, branch, digest) ==
            [data |-> d, first_run_or_save |-> first_run_or_save,
             printed |-> lines, branch |-> branch, digest |-> digest]
        Result(d, lines, branch) == Out(d, lines, branch, << >>)
    IN
    IF IsError(got)
    THEN IF ~got.error /\ r.status_code = 304
         THEN Result(data,
                     IF ~flags.only_show_changes
                     THEN << LineUnmodifiedError(name) >> ELSE << >>,
                     "304")
         ELSE IF flags.break_on_error /\ got.error
              THEN Result(data, << >>, "raise")
              ELSE LET last_error == LastErrorLookup(data, name)
                       d == MarkError(data, name)
                   IN  IF flags.only_show_changes /\ last_error
                       THEN Result(d, << >>, "failure")
                       ELSE Result(d, << LineFailed(configuration, got) >>,
                                   "failure")
    ELSE IF UseHash(r, configuration)
         THEN LET digest == md5sum(ToHash(configuration, got))
              IN  IF HashChanged(data_item, digest)
                  THEN Out(StoreHash(data, name, digest),
                           << LineModifiedHash(name) >>, "hash", digest)
                  ELSE Out(data,
                           IF ~flags.only_show_changes
                           THEN << LineUnmodifiedHash(name) >> ELSE << >>,
                           "hash", digest)
         ELSE LET last_modified == r.headers["Last-Modified"]
                  parsed == strptime(last_modified)
              IN  IF parsed.raised
                  THEN Result(data, << >>, "raise")
                  ELSE Result(StoreTimestamp(data, name, last_modified),
                              << LineModified(name, parsed.value) >>,
                              "timestamp")

\* ------------------------------------------------------------------------
\* State
\* ------------------------------------------------------------------------

VARIABLES
    data_file,          \* contents of the data file (no file = empty mapping)
    comic_config,       \* the configured pages, in order
    args,               \* flags of the current run
    data,               \* the mapping loaded from the data file, as updated
    first_run_or_save,  \* whether the save step will write
    idx,                \* position of the loop in comic_config
    pc,                 \* "loop", "save" or "exit"
    result,             \* how the last run ended: "none", "saved", "kept", "raised"
    lines,              \* per page evaluated in this run: the lines printed
    loaded,             \* the mapping as loaded at the start of this run
    fetched,            \* per page evaluated in this run: request, answer, branch, digest
    prev,               \* per page evaluated in the run before: what was done
    runs,               \* number of runs started
    soup,               \* the parsed document given to a SoupHasher
    size,               \* the size its reader asks for
    to_hash,            \* the SoupHasher being read
    md5,                \* the bytes the md5 object has been updated with
    hpc                 \* position of the reading loop: "idle", "read", "done"

\* the variables of a run of the script
run_vars == << data_file, comic_config, args, data, first_run_or_save, idx,
               pc, result, lines, loaded, fetched, prev, runs >>

\* the variables of one reading of a SoupHasher
hasher_vars == << soup, size, to_hash, md5, hpc >>

vars == << run_vars, hasher_vars >>


\* the configuration of page p in the current run
ConfigOf(p) ==
    LET i == CHOOSE j \in 1..Len(comic_config) : comic_config[j][1] = p
    IN  comic_config[i][2]

\* what the current run did for page p, kept for the next run
Summary(p) ==
    LET b == fetched[p].branch
    IN  [branch |-> b,
         body |-> IF b = "hash" THEN fetched[p].answer.body ELSE EmptyDoc,
         criteria |-> IF b = "hash" THEN ConfigOf(p).criteria ELSE EmptyDict,
         digest |-> fetched[p].digest]

InitRun ==
    /\ data_file = EmptyDict
    /\ comic_config = << >>
    /\ args = [only_show_changes |-> FALSE, dont_save_changes |-> FALSE,
               break_on_error |-> FALSE]
    /\ data = EmptyDict
    /\ first_run_or_save = FALSE
    /\ idx = 1
    /\ pc = "exit"
    /\ result = "none"
    /\ lines = EmptyDict
    /\ loaded = EmptyDict
    /\ fetched = EmptyDict
    /\ prev = EmptyDict
    /\ runs = 0

\* no SoupHasher is being read outside of md5sum
InitHasher ==
    /\ soup = EmptyDoc
    /\ size = READ_BUFFER_SIZE
    /\ to_hash = RawStream(<< >>)
    /\ md5 = << >>
    /\ hpc = "idle"

Init == InitRun /\ InitHasher

\* variant of SaveByDefault that ignores the flag
SaveByDefaultAlways(flags) == TRUE

\* first_run_or_save = not args.dont_save_changes
SaveByDefault(flags) == ~flags.dont_save_changes

\* A new run of the script: parse the flags, load the data file, set
\* first_run_or_save and enter the loop.
StartRun ==
    /\ pc = "exit"
    /\ runs < MaxRuns
    /\ runs' = runs + 1
    /\ args' \in Args
    /\ comic_config' \in ComicConfigs
    /\ data' = data_file
    /\ loaded' = data_file
    /\ first_run_or_save' = SaveByDefault(args')
    /\ idx' = 1
    /\ pc' = "loop"
    /\ prev' = [p \in DOMAIN fetched |-> Summary(p)]
    /\ fetched' = EmptyDict
    /\ lines' = EmptyDict
    /\ UNCHANGED << data_file, result >>
    /\ UNCHANGED hasher_vars

\* One iteration of the page loop, for the page at idx.
CheckPage ==
    /\ pc = "loop"
    /\ LET name == comic_config[idx][1]
           configuration == comic_config[idx][2]
           headers == RequestHeaders(data, name, configuration)
       IN  \E answer \in ServerAnswers(headers) :
             LET t == PageStep([data |-> data,
                                first_run_or_save |-> first_run_or_save],
                               name, configuration, args, answer)
             IN  /\ data' = t.data
                 /\ first_run_or_save' = t.first_run_or_save
                 /\ lines' = SetItem(lines, name, t.printed)
                 /\ fetched' = SetItem(fetched, name,
                                       [headers |-> headers, answer |-> answer,
                                        branch |-> t.branch,
                                        digest |-> t.digest])
                 /\ IF t.branch = "raise"
                    THEN /\ pc' = "exit"
                         /\ result' = "raised"
                         /\ idx' = idx
                    ELSE /\ idx' = idx + 1
                         /\ pc' = IF idx = Len(comic_config) THEN "save" ELSE "loop"
                         /\ result' = result
    /\ UNCHANGED << data_file, comic_config, args, loaded, prev, runs >>
    /\ UNCHANGED hasher_vars

\* The save step after the loop.
SaveData ==
    /\ pc = "save"
    /\ IF first_run_or_save
       THEN /\ data_file' = data
            /\ result' = "saved"
       ELSE /\ data_file' = data_file
            /\ result' = "kept"
    /\ pc' = "exit"
    /\ UNCHANGED << comic_config, args, data, first_run_or_save, idx, lines,
                    loaded, fetched, prev, runs >>
    /\ UNCHANGED hasher_vars

\* a write of the mapping to the data file inside the loop
SaveEarly ==
    /\ pc = "loop"
    /\ data_file' = data
    /\ UNCHANGED << comic_config, args, data, first_run_or_save, idx, pc,
                    result, lines, loaded, fetched, prev, runs >>
    /\ UNCHANGED hasher_vars

\* variant of Next in which the data file is also written between pages
NextSavingEarly == StartRun \/ CheckPage \/ SaveData \/ SaveEarly

Next == StartRun \/ CheckPage \/ SaveData

Spec == Init /\ [][Next]_vars

\* ------------------------------------------------------------------------
\* The extractor read on its own: one SoupHasher over a document, read with
\* a given size by the loop of md5sum
\* ------------------------------------------------------------------------

Tags == {"div", "span"}
Texts == {"a", "b"}

\* what an element of the documents can have inside it
Inner == { << >>, << Element("span", "c", << >>) >>,
           << Element("div", "c", << >>) >> }

Nodes == { Element(g, t, ch) : g \in Tags, t \in Texts, ch \in Inner }

\* BeautifulSoup(r.text): the documents the extractor is given
Docs == UNION { [1..k -> Nodes] : k \in 0..MaxElems }

\* to_hash = SoupHasher(BeautifulSoup(r.text), configuration.get("criteria"))
\* and md5 = hashlib.md5(), with a reader that asks for size bytes
InitExtract ==
    /\ InitRun
    /\ soup \in Docs
    /\ size \in 1..MaxRead
    /\ to_hash = SoupHasher(soup, DivCriteria)
    /\ md5 = << >>
    /\ hpc = "read"

\* One iteration of "while True" in md5sum: data = readable.read(size);
\* if not data: break; md5.update(data)
ReadChunk ==
    /\ hpc = "read"
    /\ LET r == read(to_hash, size)
       IN  /\ to_hash' = r.h
           /\ IF r.ret = << >>
              THEN /\ hpc' = "done"
                   /\ md5' = md5
              ELSE /\ hpc' = "read"
                   /\ md5' = md5 \o r.ret
    /\ UNCHANGED << soup, size >>
    /\ UNCHANGED run_vars

NextExtract == ReadChunk

SpecExtract == InitExtract /\ [][NextExtract]_vars

\* ------------------------------------------------------------------------
\* Vocabulary of the properties
\* ------------------------------------------------------------------------

Pages == { comic_config[i][1] : i \in 1..Len(comic_config) }

\* the run reached its save step and has ended
Completed == pc = "exit" /\ result \in {"saved", "kept"}

\* page p has a non-empty record in mapping d
HasRecord(d, p) == p \in DOMAIN d /\ DOMAIN d[p] # {}

\* p's record is the same in d1 and d2 (present in both and equal, or absent
\* from both)
SameRecord(d1, d2, p) ==
    /\ (p \in DOMAIN d1) = (p \in DOMAIN d2)
    /\ (p \in DOMAIN d1) => d1[p] = d2[p]

HasField(d, p, k) == p \in DOMAIN d /\ k \in DOMAIN d[p]

\* key k of p's record is the same in d1 and d2
SameField(d1, d2, p, k) ==
    /\ HasField(d1, p, k) = HasField(d2, p, k)
    /\ HasField(d1, p, k) => d1[p][k] = d2[p][k]

\* the answer was an HTTP response that requests calls ok
Succeeded(answer) == answer.answered /\ answer.status_code < 400

\* the one line printed for p reports it as modified
ShownModified(p) ==
    /\ Len(lines[p]) = 1
    /\ lines[p][1][1] = "*"
    /\ lines[p][1][2] = upper(p)

\* the bytes the digest of the page is meant to cover: the matched elements
\* of a page with criteria, the whole body otherwise
RECURSIVE Matched(_, _)
Matched(doc, criteria) ==
    IF doc = << >> THEN << >>
    ELSE (IF Head(doc).tag = criteria.name THEN prettify(Head(doc)) ELSE << >>)
         \o Matched(Tail(doc), criteria)

ContentDigest(configuration, answer) ==
    << "md5", IF configuration.criteria # EmptyDict
              THEN Matched(answer.body, configuration.criteria)
              ELSE Serialize(answer.body) >>

\* ------------------------------------------------------------------------
\* Properties
\* ------------------------------------------------------------------------

\* C1. Not-modified short-circuit: a page whose request was answered with
\* 304 is not reported as modified (at most "<name> unmodified (error)" is
\* printed) and its record after the run is its record before the run.
NotModifiedShortCircuit ==
    \A p \in DOMAIN fetched :
        fetched[p].answer.status_code = 304 =>
            /\ lines[p] \in { << >>, << LineUnmodifiedError(p) >> }
            /\ SameRecord(data, loaded, p)
            /\ Completed => SameRecord(data_file, loaded, p)

\* the case of C2: p was hashed in the run before and in this run, with the
\* same criteria and byte-identical content, and the digest of the run
\* before is the stored hash
SameContentAgain(p) ==
    /\ p \in DOMAIN fetched
    /\ fetched[p].branch = "hash"
    /\ p \in DOMAIN prev
    /\ prev[p].branch = "hash"
    /\ prev[p].body = fetched[p].answer.body
    /\ prev[p].criteria = ConfigOf(p).criteria
    /\ HasField(loaded, p, "hash")
    /\ loaded[p]["hash"] = prev[p].digest

\* C2. Hash-fallback stability: a page hashed in two consecutive runs with
\* the same criteria and byte-identical content, the first digest having
\* been persisted, is found unchanged by the second run: its line is
\* "<name> unmodified (checked via hash)" (no line under
\* --only-show-changes) and its record is left as it was.
HashFallbackStable ==
    \A p \in DOMAIN fetched :
        SameContentAgain(p) =>
            /\ lines[p] = IF args.only_show_changes THEN << >>
                          ELSE << LineUnmodifiedHash(p) >>
            /\ SameRecord(data, loaded, p)
            /\ Completed => SameRecord(data_file, loaded, p)

HashFallbackStableWitness ==
    /\ Completed
    /\ \E p \in DOMAIN fetched :
          /\ SameContentAgain(p)
          /\ ConfigOf(p).criteria # EmptyDict
          /\ fetched[p].answer.body = DocA
          /\ lines[p] = << LineUnmodifiedHash(p) >>

\* C3. Hash change detection: on the hash path, when the digest of the
\* fetched content differs from the stored hash (or none is stored) the page
\* is reported "* <NAME> modified (checked via hash)" and the stored hash
\* becomes the digest of the fetched content; a run whose body differs from
\* the body of the run before reports the page as changed.
HashChangeDetected ==
    \A p \in DOMAIN fetched :
        fetched[p].branch = "hash" =>
            LET d == ContentDigest(ConfigOf(p), fetched[p].answer)
            IN  /\ (~HasField(loaded, p, "hash") \/ loaded[p]["hash"] # d) =>
                      /\ lines[p] = << LineModifiedHash(p) >>
                      /\ HasField(data, p, "hash")
                      /\ data[p]["hash"] = d
                /\ ( /\ p \in DOMAIN prev
                     /\ prev[p].branch = "hash"
                     /\ prev[p].criteria = ConfigOf(p).criteria
                     /\ prev[p].body # fetched[p].answer.body ) =>
                      lines[p] = << LineModifiedHash(p) >>

\* the stored sticky flag of p at the start of the run
StoredError(p) == HasField(loaded, p, "last_error") /\ loaded[p]["last_error"] = TRUE

\* C4. Sticky failure tracking: under --only-show-changes, a failure of a
\* page whose stored flag is not set is a new failure and is printed; a
\* failure that follows a persisted failure of the same page in the run
\* before is a repeat and is suppressed.
StickyFailureTracking ==
    \A p \in DOMAIN fetched :
        (fetched[p].branch = "failure" /\ args.only_show_changes) =>
            /\ ~StoredError(p) => lines[p] # << >>
            /\ (p \in DOMAIN prev /\ prev[p].branch = "failure" /\ StoredError(p))
                  => lines[p] = << >>

\* position of page p in the configuration
Pos(p) == CHOOSE j \in 1..Len(comic_config) : comic_config[j][1] = p

\* the case of C5: p's fetch failed (transport exception, or a status that
\* is not ok and not 304) and --break-on-error is not set
FailedFetch(p) ==
    /\ p \in DOMAIN fetched
    /\ ~args.break_on_error
    /\ \/ ~fetched[p].answer.answered
       \/ fetched[p].answer.status_code >= 400

\* what a failed fetch does to the page's record and line
FailureEffects(p) ==
    /\ HasField(data, p, "last_error")
    /\ data[p]["last_error"] = TRUE
    /\ SameField(data, loaded, p, "last_modified")
    /\ SameField(data, loaded, p, "hash")
    /\ ~ShownModified(p)

\* C5 as stated. Failure semantics: a failed fetch sets last_error, leaves
\* last_modified and hash alone, never reports the page as modified and does
\* not stop the loop; when the loop has gone through the later pages, the
\* data is saved.
FailureAlwaysSaved ==
    \A p \in DOMAIN fetched :
        FailedFetch(p) =>
            /\ FailureEffects(p)
            /\ Pos(p) < idx
            /\ Completed => (Pages \subseteq DOMAIN fetched /\ result = "saved")

\* C5 as amended. Failure semantics: a failed fetch sets last_error, leaves
\* last_modified and hash alone, never reports the page as modified and does
\* not stop the loop, which goes on to the next page; when the loop has gone
\* through the later pages, the save step writes the data unless
\* --dont-save-changes is set and every configured page had a record.
FailureSemantics ==
    \A p \in DOMAIN fetched :
        FailedFetch(p) =>
            /\ FailureEffects(p)
            /\ Pos(p) < idx
            /\ Completed =>
                  /\ Pages \subseteq DOMAIN fetched
                  /\ (result = "saved") =
                        (~args.dont_save_changes
                           \/ \E q \in Pages : ~HasRecord(loaded, q))
                  /\ result = "saved" => SameRecord(data_file, data, p)

FailureSemanticsWitness ==
    /\ Completed
    /\ result = "kept"
    /\ Len(comic_config) = 2
    /\ FailedFetch(comic_config[1][1])
    /\ fetched[comic_config[2][1]].branch = "hash"
    /\ ~StoredError(comic_config[1][1])

\* C6. Timestamp path: a successful fetch with a Last-Modified header, for
\* a page without the override flag, reports the page as modified, stores
\* the header value as last_modified, leaves hash as it was and sets
\* last_error to false.
TimestampPath ==
    \A p \in DOMAIN fetched :
        ( /\ Succeeded(fetched[p].answer)
          /\ "Last-Modified" \in DOMAIN fetched[p].answer.headers
          /\ ~ConfigOf(p).override ) =>
            /\ ShownModified(p)
            /\ HasField(data, p, "last_modified")
            /\ data[p]["last_modified"] = fetched[p].answer.headers["Last-Modified"]
            /\ SameField(data, loaded, p, "hash")
            /\ HasField(data, p, "last_error")
            /\ data[p]["last_error"] = FALSE

\* C7. First-run behaviour: a page without a stored record whose fetch
\* succeeds gets a record with last_modified or hash, is not handled as a
\* failure, and the record is written by the save step even under
\* --dont-save-changes.
FirstRunBehaviour ==
    \A p \in DOMAIN fetched :
        (~HasRecord(loaded, p) /\ Succeeded(fetched[p].answer)) =>
            /\ HasField(data, p, "last_modified") \/ HasField(data, p, "hash")
            /\ ~(HasField(data, p, "last_error") /\ data[p]["last_error"] = TRUE)
            /\ fetched[p].branch # "failure"
            /\ Completed => (result = "saved" /\ HasRecord(data_file, p)
                               /\ data_file[p] = data[p])

\* C8. Override flag: a page with the override flag is decided by hash on
\* every successful fetch, also when the response has a Last-Modified
\* header; it is never reported by the timestamp path and its stored
\* last_modified is never set from the header.
OverrideUsesHash ==
    \A p \in DOMAIN fetched :
        ConfigOf(p).override =>
            /\ Succeeded(fetched[p].answer) =>
                  /\ fetched[p].branch = "hash"
                  /\ lines[p] \in { << >>, << LineModifiedHash(p) >>,
                                    << LineUnmodifiedHash(p) >> }
                  /\ (lines[p] = << LineModifiedHash(p) >>) =
                        (~HasField(loaded, p, "hash")
                           \/ loaded[p]["hash"] # fetched[p].digest)
            /\ fetched[p].branch # "timestamp"
            /\ SameField(data, loaded, p, "last_modified")
            /\ Completed => SameField(data_file, loaded, p, "last_modified")

OverrideUsesHashWitness ==
    /\ Completed
    /\ \E p \in DOMAIN fetched :
          /\ ConfigOf(p).override
          /\ fetched[p].answer.status_code = 200
          /\ "Last-Modified" \in DOMAIN fetched[p].answer.headers
          /\ HasField(loaded, p, "hash")
          /\ lines[p] = << LineModifiedHash(p) >>

\* the loop run again from the loaded mapping with the same answers, under
\* other flags
RECURSIVE ReplayFrom(_, _, _)
ReplayFrom(i, s, flags) ==
    IF i > Len(comic_config) THEN s
    ELSE LET name == comic_config[i][1]
             t == PageStep([data |-> s.data,
                            first_run_or_save |-> s.first_run_or_save],
                           name, comic_config[i][2], flags, fetched[name].answer)
         IN  ReplayFrom(i + 1,
                        [data |-> t.data,
                         first_run_or_save |-> t.first_run_or_save,
                         lines |-> SetItem(s.lines, name, t.printed)],
                        flags)

Replay(flags) ==
    ReplayFrom(1, [data |-> loaded, first_run_or_save |-> ~flags.dont_save_changes,
                   lines |-> EmptyDict], flags)

\* C9. Dry run: in a run with --dont-save-changes that reaches its save
\* step, the data file is left unwritten exactly when every configured page
\* had a non-empty record at the start; otherwise the whole mapping with
\* this run's updates is written; the lines printed are those of the same
\* run without the flag.
DryRun ==
    (Completed /\ args.dont_save_changes) =>
        LET r == Replay([args EXCEPT !.dont_save_changes = FALSE])
        IN  /\ (result = "kept") = (\A q \in Pages : HasRecord(loaded, q))
            /\ result = "kept" => data_file = loaded
            /\ result = "saved" => data_file = r.data
            /\ lines = r.lines

DryRunWitness ==
    /\ Completed
    /\ args.dont_save_changes
    /\ result = "saved"
    /\ Len(comic_config) = 2
    /\ \E p, q \in Pages :
          /\ ~HasRecord(loaded, p)
          /\ HasRecord(loaded, q)
          /\ data_file[q] # loaded[q]
          /\ Len(lines[q]) = 1

\* p was found unchanged by this run
FoundUnchanged(p) ==
    \/ fetched[p].branch = "304"
    \/ fetched[p].branch = "hash" /\ SameField(data, loaded, p, "hash")

\* p was detected as changed by this run
FoundChanged(p) ==
    \/ fetched[p].branch = "timestamp"
    \/ fetched[p].branch = "hash" /\ ~SameField(data, loaded, p, "hash")

\* C10. One line per page: in a run that completes, every page has exactly
\* one line when --only-show-changes is off; when it is on, the pages
\* without a line are pages found unchanged and pages whose failure repeats
\* a stored failure, and a page detected as changed has its modified line.
OneLinePerPage ==
    Completed =>
        \A p \in Pages :
            /\ p \in DOMAIN lines
            /\ Len(lines[p]) <= 1
            /\ ~args.only_show_changes => Len(lines[p]) = 1
            /\ lines[p] = << >> =>
                  \/ FoundUnchanged(p)
                  \/ fetched[p].branch = "failure" /\ StoredError(p)
            /\ FoundChanged(p) => ShownModified(p)

\* C11. Parse errors are page-level: a page whose fetch succeeded never stops
\* the run, whatever its Last-Modified header holds: no exception leaves the
\* loop body and the loop goes on to what follows the page (the next page,
\* or the save step).
ParseErrorsArePageLevel ==
    \A p \in DOMAIN fetched :
        Succeeded(fetched[p].answer) =>
            /\ fetched[p].branch # "raise"
            /\ Pos(p) < idx

\* sequence s with e put after its first k elements
InsertAt(s, k, e) == SubSeq(s, 1, k) \o << e >> \o SubSeq(s, k + 1, Len(s))

\* document doc with element e added at the top level, inside its i-th
\* element, or inside the j-th element of its i-th element
AddOutside(doc, k, e) == InsertAt(doc, k, e)
AddInside(doc, i, k, e) == [doc EXCEPT ![i].children = InsertAt(@, k, e)]
AddInsideChild(doc, i, j, k, e) ==
    [doc EXCEPT ![i].children[j].children = InsertAt(@, k, e)]

\* elements that the criteria "all div elements" do not match
Unmatched == { Element("span", t, << >>) : t \in Texts }

\* the digest the page loop computes for a page with criteria whose body
\* parses to doc
Digest(doc) == md5sum(SoupHasher(doc, DivCriteria))

\* a page whose stored hash is the digest of document old is reported as
\* changed, and gets the new digest stored, when its body is document new
ReportedChanged(old, new) ==
    \A flags \in Args :
        LET stored == [p \in {"foo"} |-> [k \in {"hash"} |-> Digest(old)]]
            t == PageStep([data |-> stored, first_run_or_save |-> TRUE],
                          "foo", Configuration("foo", FALSE, DivCriteria),
                          flags, Answer(200, EmptyDict, new))
        IN  /\ t.printed = << LineModifiedHash("foo") >>
            /\ t.data["foo"]["hash"] = Digest(new)
            /\ t.data["foo"]["hash"] # Digest(old)

\* the reading of soup has ended: md5 holds what was read
Digested == hpc = "done"

\* the digest of document doc is the digest obtained by the reading of soup
SameDigest(doc) == Digest(doc) = hexdigest(md5)

\* changing the text of any one matched element of soup, at the top level or
\* inside another element, changes the digest and the page is reported
TextChangeDetected ==
    /\ \A i \in 1..Len(soup) : \A t \in Texts \ {soup[i].text} :
          soup[i].tag = "div" =>
              ReportedChanged(soup, [soup EXCEPT ![i].text = t])
    /\ \A i \in 1..Len(soup) : \A j \in 1..Len(soup[i].children) :
          \A t \in Texts \ {soup[i].children[j].text} :
              soup[i].children[j].tag = "div" =>
                  ReportedChanged(soup, [soup EXCEPT ![i].children[j].text = t])

\* C12 as stated. Selective extraction: the digest depends only on the
\* matched elements: adding an unmatched element anywhere in the document,
\* at the top level or inside any element, matched or not, leaves the digest
\* unchanged; changing the text of a matched element changes the digest and
\* the page is reported as changed.
UnmatchedNeverCounts ==
    Digested =>
        /\ \A e \in Unmatched :
              /\ \A k \in 0..Len(soup) : SameDigest(AddOutside(soup, k, e))
              /\ \A i \in 1..Len(soup) : \A k \in 0..Len(soup[i].children) :
                    SameDigest(AddInside(soup, i, k, e))
              /\ \A i \in 1..Len(soup) : \A j \in 1..Len(soup[i].children) :
                    SameDigest(AddInsideChild(soup, i, j, 0, e))
        /\ TextChangeDetected

\* C12 as amended. Selective extraction: the digest covers the matched
\* elements with everything inside them: adding an unmatched element leaves
\* the digest unchanged exactly when it is added outside every matched
\* element (inside a matched element it changes the digest); changing the
\* text of a matched element changes the digest and the page is reported as
\* changed.
SelectiveExtraction ==
    Digested =>
        /\ \A e \in Unmatched :
              /\ \A k \in 0..Len(soup) : SameDigest(AddOutside(soup, k, e))
              /\ \A i \in 1..Len(soup) : \A k \in 0..Len(soup[i].children) :
                    SameDigest(AddInside(soup, i, k, e)) = (soup[i].tag # "div")
              /\ \A i \in 1..Len(soup) : \A j \in 1..Len(soup[i].children) :
                    SameDigest(AddInsideChild(soup, i, j, 0, e))
                        = (soup[i].tag # "div" /\ soup[i].children[j].tag # "div")
        /\ TextChangeDetected

SelectiveExtractionWitness ==
    /\ Digested
    /\ size = 1
    /\ Len(soup) = 2
    /\ soup[1].tag = "div" /\ soup[1].children = << >>
    /\ soup[2].tag = "span" /\ soup[2].children # << >>
    /\ md5 = prettify(soup[1])
    /\ \E e \in Unmatched :
          /\ SameDigest(AddInside(soup, 2, 0, e))
          /\ ~SameDigest(AddInside(soup, 1, 0, e))
    /\ ReportedChanged(soup, [soup EXCEPT ![1].text = "b"])

\* C13. Conditional-request protocol: the request for a page carries
\* If-Modified-Since exactly when the page's stored record has a non-empty
\* last_modified and the page's override flag is not set; its value is the
\* stored last_modified; with the override flag nothing stored is sent.
ConditionalRequest ==
    \A p \in DOMAIN fetched :
        LET h == fetched[p].headers
            stored == /\ HasField(loaded, p, "last_modified")
                      /\ loaded[p]["last_modified"] # ""
        IN  /\ ("If-Modified-Since" \in DOMAIN h)
                  = (stored /\ ~ConfigOf(p).override)
            /\ "If-Modified-Since" \in DOMAIN h =>
                  h["If-Modified-Since"] = loaded[p]["last_modified"]
            /\ ConfigOf(p).override => h = EmptyDict

ConditionalRequestWitness ==
    /\ Completed
    /\ \E p \in DOMAIN fetched :
          /\ HasField(loaded, p, "last_modified")
          /\ "If-Modified-Since" \in DOMAIN fetched[p].headers
          /\ fetched[p].headers["If-Modified-Since"] = Stamp2
          /\ fetched[p].answer.status_code = 304

\* C14. Hash-detected change stamps the timestamp: a page reported as
\* changed via hash has, in its record, the new hash and a last_modified
\* that is the time of the run in the timestamp format.
HashChangeStampsTime ==
    \A p \in DOMAIN fetched :
        (fetched[p].branch = "hash" /\ lines[p] = << LineModifiedHash(p) >>) =>
            /\ HasField(data, p, "hash")
            /\ data[p]["hash"] = fetched[p].digest
            /\ HasField(data, p, "last_modified")
            /\ data[p]["last_modified"] = Now

\* the fetch of p in this run failed: no answer, or a status that is not ok
FetchFailed(p) ==
    \/ ~fetched[p].answer.answered
    \/ fetched[p].answer.status_code >= 400

\* C15. The sticky flag tracks the most recent attempt: once the loop has
\* gone past a page, the page's last_error is true exactly when the fetch of
\* this run failed, in the mapping and in the file that the save step
\* writes.
StickyFlagTracksLastAttempt ==
    \A p \in DOMAIN fetched :
        Pos(p) < idx =>
            /\ (HasField(data, p, "last_error") /\ data[p]["last_error"] = TRUE)
                  = FetchFailed(p)
            /\ (Completed /\ result = "saved") =>
                  (HasField(data_file, p, "last_error")
                     /\ data_file[p]["last_error"] = TRUE) = FetchFailed(p)

\* mapping d without the record of q
Without(d, q) == [x \in (DOMAIN d) \ {q} |-> d[x]]

\* the loop of this run done again with the same flags and answers, from
\* the loaded mapping without the record of q
ReplayWithout(q) ==
    ReplayFrom(1, [data |-> Without(loaded, q),
                   first_run_or_save |-> ~args.dont_save_changes,
                   lines |-> EmptyDict], args)

\* C16. Page independence: in a run that completes, the lines of a page and
\* its new record are what they would be if the stored record of any other
\* page were not there.
PageIndependence ==
    Completed =>
        \A p \in Pages : \A q \in Names \ {p} :
            /\ ReplayWithout(q).lines[p] = lines[p]
            /\ SameRecord(ReplayWithout(q).data, data, p)

\* the serializations of the matched elements of soup, in document order
Extracted == Serialize(find_all(soup, DivCriteria))

\* C17. Chunked extraction stream: whatever the read size, the chunks read
\* so far are the beginning of the matched elements' serializations in
\* document order; read gives an empty result only when all of it has been
\* given; when the reading ends the bytes read are exactly that
\* concatenation, md5sum gives its digest, and the digest of empty input
\* when nothing matches.
ChunkedStream ==
    /\ Len(md5) <= Len(Extracted)
    /\ md5 = SubSeq(Extracted, 1, Len(md5))
    /\ (hpc = "read" /\ Len(md5) < Len(Extracted)) =>
          LET r == read(to_hash, size)
          IN  r.ret # << >> /\ Len(r.ret) <= size
    /\ Digested =>
          /\ md5 = Extracted
          /\ read(to_hash, size).ret = << >>
          /\ md5sum(SoupHasher(soup, DivCriteria)) = hexdigest(Extracted)
          /\ find_all(soup, DivCriteria) = << >> =>
                md5sum(SoupHasher(soup, DivCriteria)) = hexdigest(<< >>)

ChunkedStreamWitness ==
    /\ Digested
    /\ size = 3
    /\ Len(soup) = 2
    /\ soup[1].tag = "div" /\ soup[2].tag = "div"
    /\ soup[1].text # soup[2].text
    /\ soup[1].children = << >> /\ soup[2].children = << >>
    /\ md5 = prettify(soup[1]) \o prettify(soup[2])

\* C18. No partial persistence: while the loop runs and up to the save step
\* the data file is what was loaded; a run that stopped early leaves it as
\* it was, also for the pages it had evaluated; the save step, after the
\* last page, writes the whole mapping or nothing.
NoPartialPersistence ==
    /\ pc \in {"loop", "save"} => data_file = loaded
    /\ (pc = "exit" /\ result = "raised") => data_file = loaded
    /\ Completed =>
          /\ Pages \subseteq DOMAIN fetched
          /\ data_file \in {loaded, data}

NoPartialPersistenceWitness ==
    /\ pc = "exit"
    /\ result = "raised"
    /\ args.break_on_error
    /\ Len(comic_config) = 2
    /\ idx = 2
    /\ ~fetched[comic_config[2][1]].answer.answered
    /\ fetched[comic_config[1][1]].branch = "failure"
    /\ HasRecord(loaded, comic_config[2][1])
    /\ data # loaded
    /\ data_file = loaded

\* C19. Records are never deleted: during and after a run, every name of
\* the loaded mapping is in the mapping and in the data file, and the record
\* of every name that is not configured is as it was loaded.
RecordsNeverDeleted ==
    /\ DOMAIN loaded \subseteq DOMAIN data
    /\ DOMAIN loaded \subseteq DOMAIN data_file
    /\ \A q \in Names \ Pages :
          /\ SameRecord(data, loaded, q)
          /\ SameRecord(data_file, loaded, q)

RecordsNeverDeletedWitness ==
    /\ Completed
    /\ result = "saved"
    /\ data_file # loaded
    /\ \E q \in DOMAIN loaded : \E p \in Pages :
          /\ q \notin Pages
          /\ HasRecord(loaded, q)
          /\ data_file[q] = loaded[q]
          /\ HasRecord(loaded, p)
          /\ data_file[p] # loaded[p]

====
